---- MODULE Spec2Model ----
(***************************************************************************)
(* Model of qiniu-upload-util (src/src/main.rs): the directory batch       *)
(* upload of main (walk, split into chunks, one spawned task per chunk,    *)
(* join and sum), the single-file branch, the pure functions               *)
(* split_into_chunks and walk_dir, the key derivation of both modes and    *)
(* the key post-processing replace("//", "/").to_lowercase().              *)
(*                                                                         *)
(* Six specifications share the variables:                                 *)
(*   Spec       the directory branch of main                               *)
(*   FileSpec   the single-file branch of main                             *)
(*   SplitSpec  split_into_chunks applied to bounded inputs                *)
(*   WalkSpec   walk_dir applied to bounded directory trees                *)
(*   DeriveSpec the key derivation applied to bounded paths and prefixes   *)
(*   KeySpec    the key post-processing applied to bounded strings         *)
(***************************************************************************)
EXTENDS Integers, Sequences, FiniteSets, TLC

VARIABLES
    \* ---- directory branch of main ----
    dir_files,       \* number of regular files under file_path (environment)
    thread_limit,    \* second argument of split_into_chunks at main.rs:182
    item_path,       \* Vec<PathBuf> returned by walk_dir
    item_path_list,  \* Vec<Vec<PathBuf>> returned by split_into_chunks
    spawned,         \* number of handles pushed so far
    wpc,             \* per spawned task: position in the worker loop
    widx,            \* per spawned task: index of the current item of its chunk
    wsuccess,        \* per spawned task: local `success`
    wfail,           \* per spawned task: local `fail`
    outcome,         \* per file: what has happened to it so far
    invocations,     \* per file: number of part_upload_file calls made for it
    invokers,        \* per file: the tasks that called part_upload_file for it
    mainPc,          \* position of main
    joinIdx,         \* index of the handle main awaits next
    success,         \* main's `success`
    fail,            \* main's `fail`
    summary,         \* the tally printed at main.rs:288, or None
    \* ---- split_into_chunks on its own ----
    list,            \* argument `list`
    chunk_count,     \* argument `chunk_count`
    split_pc,        \* "call" | "done" | "panicked"
    split_result,    \* the returned Vec<Vec<T>>
    \* ---- key post-processing on its own ----
    key_input,       \* a string, as a sequence of characters
    key_output,      \* results of successive applications of the post-processing
    \* ---- walk_dir on its own ----
    fs_kind,         \* per entry of the tree: "dir" | "file" | "other" | "locked_dir"
    fs_parent,       \* per entry: the directory that holds it (0 for the root)
    walk_pc,         \* "call" | "done" | "panicked"
    walk_result,     \* the returned Vec<PathBuf>
    \* ---- key derivation on its own ----
    d_mode,          \* "dir" (file_path is a directory) | "file"
    d_object_name,   \* cli.object_name: Option<String>
    d_file_path,     \* cli.file_path, as the string to_str() gives
    d_keys,          \* the key handed to the upload client, per file it was derived for
    \* ---- single-file branch of main ----
    f_object_name,   \* cli.object_name: Option<String>
    f_file_path,     \* cli.file_path
    f_domain_name,   \* cli.domain_name: Option<String>
    f_no_qrcode,     \* cli.no_qrcode
    f_pc,            \* position of main
    f_key,           \* the object name handed to upload_to_qiniu
    f_upload,        \* "none" | "inflight" | "ok" | "err"
    f_printed,       \* the lines printed so far, by kind
    f_link           \* the download link printed, or the empty string

batch_vars == <<dir_files, thread_limit, item_path, item_path_list, spawned,
                wpc, widx, wsuccess, wfail, outcome, invocations, invokers,
                mainPc, joinIdx, success, fail, summary>>
split_vars == <<list, chunk_count, split_pc, split_result>>
key_vars   == <<key_input, key_output>>
walk_vars  == <<fs_kind, fs_parent, walk_pc, walk_result>>
derive_vars == <<d_mode, d_object_name, d_file_path, d_keys>>
file_vars  == <<f_object_name, f_file_path, f_domain_name, f_no_qrcode, f_pc,
               f_key, f_upload, f_printed, f_link>>
vars       == <<batch_vars, split_vars, key_vars, walk_vars, derive_vars, file_vars>>

\* the variables a specification leaves alone
not_batch_vars  == <<split_vars, key_vars, walk_vars, derive_vars, file_vars>>
not_split_vars  == <<batch_vars, key_vars, walk_vars, derive_vars, file_vars>>
not_key_vars    == <<batch_vars, split_vars, walk_vars, derive_vars, file_vars>>
not_walk_vars   == <<batch_vars, split_vars, key_vars, derive_vars, file_vars>>
not_derive_vars == <<batch_vars, split_vars, key_vars, walk_vars, file_vars>>
not_file_vars   == <<batch_vars, split_vars, key_vars, walk_vars, derive_vars>>

\* nothing printed yet (the printed tally is a pair)
None == <<>>

\* ---------------------------------------------------------------- bounds
MaxFiles   == 5     \* files in the uploaded directory
MaxWorkers == 2     \* scaled-down thread limit, so that chunks hold several files
MaxK       == 8     \* list lengths tried for split_into_chunks
MaxM       == 8     \* chunk counts tried for split_into_chunks
MaxLen     == 4     \* string lengths tried for the key post-processing
MaxNodes   == 4     \* entries of the directory tree walked by walk_dir
MaxPrefixLen == 3   \* length of the object names (destination prefixes) tried
MaxSlashes == 2     \* separators in front of and behind the name of file_path
MaxNameLen == 1     \* length of the object names tried in single-file mode

\* ------------------------------------------------------ program constants
MaxThreads == 30    \* split_into_chunks(item_path, 30)

\* ------------------------------------------------------------- helpers
Min(a, b) == IF a < b THEN a ELSE b

CeilDiv(a, b) == (a + b - 1) \div b

RECURSIVE Concat(_)
Concat(ss) == IF ss = <<>> THEN <<>> ELSE Head(ss) \o Concat(Tail(ss))

\* ---------------------------------------------------- split_into_chunks
\* let chunk_size = (list.len() + chunk_count - 1) / chunk_count;
chunk_size_floor(len, count) == IF len \div count = 0 THEN 1 ELSE len \div count
chunk_size_round(len, count) ==
    IF (len + count \div 2) \div count = 0 THEN 1 ELSE (len + count \div 2) \div count
chunk_size(len, count) == (len + count - 1) \div count

\* slice::chunks(size): consecutive slices of `size` items, the last one shorter
\* when size does not divide the length.  (size = 0 panics: see SplitPanic.)
chunks(l, size) ==
    [i \in 1..CeilDiv(Len(l), size) |->
        SubSeq(l, (i - 1) * size + 1, Min(i * size, Len(l)))]

chunks_dropping_tail(l, count) ==
    LET size == chunk_size(Len(l), count)
    IN  [i \in 1..(Len(l) \div size) |-> SubSeq(l, (i - 1) * size + 1, i * size)]
split_into_chunks(l, count) == chunks(l, chunk_size(Len(l), count))

\* ------------------------------------------------ key post-processing
CharSet == {"/", "a", "A"}

\* str::replace("//", "/"): the non-overlapping matches, found left to right
RECURSIVE replace_slashes(_)
replace_slashes(s) ==
    IF Len(s) < 2 THEN s
    ELSE IF s[1] = "/" /\ s[2] = "/"
         THEN <<"/">> \o replace_slashes(SubSeq(s, 3, Len(s)))
         ELSE <<s[1]>> \o replace_slashes(Tail(s))

to_lowercase(s) == [i \in 1..Len(s) |-> IF s[i] = "A" THEN "a" ELSE s[i]]

\* object_name.replace("//", "/").to_lowercase()
post_process(s) == to_lowercase(replace_slashes(s))

RECURSIVE StringsOfLen(_)
StringsOfLen(n) ==
    IF n = 0 THEN {<<>>}
    ELSE {Append(s, c) : s \in StringsOfLen(n - 1), c \in CharSet}

Strings == UNION {StringsOfLen(n) : n \in 0..MaxLen}

\* ------------------------------------------------------------------------
\* The directory branch of main (main.rs:175-296)
\* ------------------------------------------------------------------------
Files   == 1..dir_files
Handles == 1..spawned

\* worker positions: before the await it is suspended on, or its end
Running  == {"open", "metadata", "upload"}
Terminal == {"returned", "panicked", "cancelled"}

\* the item the task of chunk w is working on
item(w) == item_path_list[w][widx[w]]

\* what the task does after an outcome: the next item of the for loop, or
\* `(success, fail)` when item_paths is exhausted
next_pc(w) == IF widx[w] < Len(item_path_list[w]) THEN "open" ELSE "returned"

BatchInit ==
    /\ dir_files \in 0..MaxFiles
    /\ thread_limit \in {MaxWorkers, MaxThreads}
    /\ item_path = <<>>
    /\ item_path_list = <<>>
    /\ spawned = 0
    /\ wpc = <<>>
    /\ widx = <<>>
    /\ wsuccess = <<>>
    /\ wfail = <<>>
    /\ outcome = [f \in 1..dir_files |-> "none"]
    /\ invocations = [f \in 1..dir_files |-> 0]
    /\ invokers = [f \in 1..dir_files |-> {}]
    /\ mainPc = "start"
    /\ joinIdx = 1
    /\ success = 0
    /\ fail = 0
    /\ summary = None

\* main.rs:176-180: walk_dir returned nothing: "空文件夹！", exit(1)
MainEmptyDirContinue ==
    /\ mainPc = "start"
    /\ dir_files = 0
    /\ mainPc' = "spawn"
    /\ UNCHANGED <<dir_files, thread_limit, item_path, item_path_list, spawned,
                   wpc, widx, wsuccess, wfail, outcome, invocations, invokers,
                   joinIdx, success, fail, summary>>
MainEmptyDir ==
    /\ mainPc = "start"
    /\ dir_files = 0
    /\ mainPc' = "exit1"
    /\ UNCHANGED <<dir_files, thread_limit, item_path, item_path_list, spawned,
                   wpc, widx, wsuccess, wfail, outcome, invocations, invokers,
                   joinIdx, success, fail, summary>>

\* main.rs:176-192: walk_dir, split_into_chunks(item_path, 30), handles = vec![]
MainSplitPerFile ==
    /\ mainPc = "start"
    /\ dir_files > 0
    /\ item_path' = [i \in 1..dir_files |-> i]
    /\ item_path_list' = split_into_chunks(item_path', Len(item_path'))
    /\ wpc' = [w \in 1..Len(item_path_list') |-> "unspawned"]
    /\ widx' = [w \in 1..Len(item_path_list') |-> 1]
    /\ wsuccess' = [w \in 1..Len(item_path_list') |-> 0]
    /\ wfail' = [w \in 1..Len(item_path_list') |-> 0]
    /\ mainPc' = "spawn"
    /\ UNCHANGED <<dir_files, thread_limit, spawned, outcome, invocations,
                   invokers, joinIdx, success, fail, summary>>
MainSplit ==
    /\ mainPc = "start"
    /\ dir_files > 0
    /\ item_path' = [i \in 1..dir_files |-> i]
    /\ item_path_list' = split_into_chunks(item_path', thread_limit)
    /\ wpc' = [w \in 1..Len(item_path_list') |-> "unspawned"]
    /\ widx' = [w \in 1..Len(item_path_list') |-> 1]
    /\ wsuccess' = [w \in 1..Len(item_path_list') |-> 0]
    /\ wfail' = [w \in 1..Len(item_path_list') |-> 0]
    /\ mainPc' = "spawn"
    /\ UNCHANGED <<dir_files, thread_limit, spawned, outcome, invocations,
                   invokers, joinIdx, success, fail, summary>>

\* main.rs:193-280: one tokio::spawn per chunk; after the last one main goes on
\* to the join loop
MainSpawn ==
    /\ mainPc = "spawn"
    /\ spawned < Len(item_path_list)
    /\ spawned' = spawned + 1
    /\ wpc' = [wpc EXCEPT ![spawned + 1] = "open"]
    /\ mainPc' = IF spawned + 1 = Len(item_path_list) THEN "join" ELSE "spawn"
    /\ UNCHANGED <<dir_files, thread_limit, item_path, item_path_list, widx,
                   wsuccess, wfail, outcome, invocations, invokers, joinIdx,
                   success, fail, summary>>

\* main.rs:219: fs::File::open(item.clone()).await succeeded
OpenOk(w) ==
    /\ wpc[w] = "open"
    /\ wpc' = [wpc EXCEPT ![w] = "metadata"]
    /\ outcome' = [outcome EXCEPT ![item(w)] = "opened"]
    /\ UNCHANGED <<dir_files, thread_limit, item_path, item_path_list, spawned,
                   widx, wsuccess, wfail, invocations, invokers, mainPc, joinIdx,
                   success, fail, summary>>

\* main.rs:219: fs::File::open(..).await returned Err: unwrap() panics the task
OpenFail(w) ==
    /\ wpc[w] = "open"
    /\ wpc' = [wpc EXCEPT ![w] = "panicked"]
    /\ outcome' = [outcome EXCEPT ![item(w)] = "open_failed"]
    /\ UNCHANGED <<dir_files, thread_limit, item_path, item_path_list, spawned,
                   widx, wsuccess, wfail, invocations, invokers, mainPc, joinIdx,
                   success, fail, summary>>

\* main.rs:220-250: file.metadata().await succeeded; part_upload_file is called
\* and the task awaits it
MetadataOkNoAwait(w) ==
    /\ wpc[w] = "metadata"
    /\ wpc' = [wpc EXCEPT ![w] = next_pc(w)]
    /\ widx' = [widx EXCEPT ![w] = IF next_pc(w) = "open" THEN @ + 1 ELSE @]
    /\ outcome' = [outcome EXCEPT ![item(w)] = "inflight"]
    /\ invocations' = [invocations EXCEPT ![item(w)] = @ + 1]
    /\ invokers' = [invokers EXCEPT ![item(w)] = @ \cup {w}]
    /\ UNCHANGED <<dir_files, thread_limit, item_path, item_path_list, spawned,
                   wsuccess, wfail, mainPc, joinIdx, success, fail, summary>>
MetadataOk(w) ==
    /\ wpc[w] = "metadata"
    /\ wpc' = [wpc EXCEPT ![w] = "upload"]
    /\ outcome' = [outcome EXCEPT ![item(w)] = "inflight"]
    /\ invocations' = [invocations EXCEPT ![item(w)] = @ + 1]
    /\ invokers' = [invokers EXCEPT ![item(w)] = @ \cup {w}]
    /\ UNCHANGED <<dir_files, thread_limit, item_path, item_path_list, spawned,
                   widx, wsuccess, wfail, mainPc, joinIdx, success, fail, summary>>

\* main.rs:220: file.metadata().await returned Err: unwrap() panics the task
MetadataFail(w) ==
    /\ wpc[w] = "metadata"
    /\ wpc' = [wpc EXCEPT ![w] = "panicked"]
    /\ outcome' = [outcome EXCEPT ![item(w)] = "metadata_failed"]
    /\ UNCHANGED <<dir_files, thread_limit, item_path, item_path_list, spawned,
                   widx, wsuccess, wfail, invocations, invokers, mainPc, joinIdx,
                   success, fail, summary>>

\* main.rs:252, 265-276: Ok(_) => success += 1, "上传成功", next item
UploadOk(w) ==
    /\ wpc[w] = "upload"
    /\ wsuccess' = [wsuccess EXCEPT ![w] = @ + 1]
    /\ outcome' = [outcome EXCEPT ![item(w)] = "ok"]
    /\ wpc' = [wpc EXCEPT ![w] = next_pc(w)]
    /\ widx' = [widx EXCEPT ![w] = IF next_pc(w) = "open" THEN @ + 1 ELSE @]
    /\ UNCHANGED <<dir_files, thread_limit, item_path, item_path_list, spawned,
                   wfail, invocations, invokers, mainPc, joinIdx, success, fail,
                   summary>>

\* main.rs:253-264: Err(e) => fail += 1, "上传失败", next item
UploadErrAbort(w) ==
    /\ wpc[w] = "upload"
    /\ wfail' = [wfail EXCEPT ![w] = @ + 1]
    /\ outcome' = [outcome EXCEPT ![item(w)] = "err"]
    /\ wpc' = [wpc EXCEPT ![w] = "returned"]
    /\ UNCHANGED <<dir_files, thread_limit, item_path, item_path_list, spawned,
                   widx, wsuccess, invocations, invokers, mainPc, joinIdx, success,
                   fail, summary>>
UploadErrRetry(w) ==
    /\ wpc[w] = "upload"
    /\ wfail' = [wfail EXCEPT ![w] = @ + 1]
    /\ outcome' = [outcome EXCEPT ![item(w)] = "err"]
    /\ wpc' = [wpc EXCEPT ![w] = IF invocations[item(w)] < 2 THEN "open" ELSE next_pc(w)]
    /\ widx' = [widx EXCEPT ![w] =
                  IF invocations[item(w)] >= 2 /\ next_pc(w) = "open" THEN @ + 1 ELSE @]
    /\ UNCHANGED <<dir_files, thread_limit, item_path, item_path_list, spawned,
                   wsuccess, invocations, invokers, mainPc, joinIdx, success,
                   fail, summary>>
UploadErr(w) ==
    /\ wpc[w] = "upload"
    /\ wfail' = [wfail EXCEPT ![w] = @ + 1]
    /\ outcome' = [outcome EXCEPT ![item(w)] = "err"]
    /\ wpc' = [wpc EXCEPT ![w] = next_pc(w)]
    /\ widx' = [widx EXCEPT ![w] = IF next_pc(w) = "open" THEN @ + 1 ELSE @]
    /\ UNCHANGED <<dir_files, thread_limit, item_path, item_path_list, spawned,
                   wsuccess, invocations, invokers, mainPc, joinIdx, success,
                   fail, summary>>

\* main.rs:283-295: handle.await returned Ok(res): success += res.0,
\* fail += res.1; after the last handle the summary is printed and main returns
MainJoinDropFail ==
    /\ mainPc = "join"
    /\ wpc[joinIdx] = "returned"
    /\ success' = success + wsuccess[joinIdx]
    /\ fail' = fail
    /\ joinIdx' = joinIdx + 1
    /\ IF joinIdx = Len(item_path_list)
       THEN mainPc' = "done" /\ summary' = <<success', fail'>>
       ELSE UNCHANGED <<mainPc, summary>>
    /\ UNCHANGED <<dir_files, thread_limit, item_path, item_path_list, spawned,
                   wpc, widx, wsuccess, wfail, outcome, invocations, invokers>>
MainJoinNoWait ==
    /\ mainPc = "join"
    /\ wpc[joinIdx] \in Running \cup {"returned"}
    /\ success' = success + wsuccess[joinIdx]
    /\ fail' = fail + wfail[joinIdx]
    /\ joinIdx' = joinIdx + 1
    /\ IF joinIdx = Len(item_path_list)
       THEN mainPc' = "done" /\ summary' = <<success', fail'>>
       ELSE UNCHANGED <<mainPc, summary>>
    /\ UNCHANGED <<dir_files, thread_limit, item_path, item_path_list, spawned,
                   wpc, widx, wsuccess, wfail, outcome, invocations, invokers>>
MainJoin ==
    /\ mainPc = "join"
    /\ wpc[joinIdx] = "returned"
    /\ success' = success + wsuccess[joinIdx]
    /\ fail' = fail + wfail[joinIdx]
    /\ joinIdx' = joinIdx + 1
    /\ IF joinIdx = Len(item_path_list)
       THEN mainPc' = "done" /\ summary' = <<success', fail'>>
       ELSE UNCHANGED <<mainPc, summary>>
    /\ UNCHANGED <<dir_files, thread_limit, item_path, item_path_list, spawned,
                   wpc, widx, wsuccess, wfail, outcome, invocations, invokers>>

\* main.rs:284: handle.await returned Err(JoinError) because the task panicked:
\* unwrap() panics main
MainJoinPanic ==
    /\ mainPc = "join"
    /\ wpc[joinIdx] = "panicked"
    /\ mainPc' = "panicked"
    /\ UNCHANGED <<dir_files, thread_limit, item_path, item_path_list, spawned,
                   wpc, widx, wsuccess, wfail, outcome, invocations, invokers,
                   joinIdx, success, fail, summary>>

\* main.rs:122 (#[tokio::main]): the panic unwinds out of block_on and drops the
\* runtime, which cancels every task that has not finished; until then the
\* other tasks keep running
RuntimeShutdown ==
    /\ mainPc = "panicked"
    /\ \E w \in Handles : wpc[w] \in Running
    /\ wpc' = [w \in DOMAIN wpc |-> IF wpc[w] \in Running THEN "cancelled" ELSE wpc[w]]
    /\ UNCHANGED <<dir_files, thread_limit, item_path, item_path_list, spawned,
                   widx, wsuccess, wfail, outcome, invocations, invokers, mainPc,
                   joinIdx, success, fail, summary>>

SplitIdle ==
    /\ list = <<>>
    /\ chunk_count = 1
    /\ split_pc = "idle"
    /\ split_result = <<>>

KeyIdle ==
    /\ key_input = <<>>
    /\ key_output = <<>>

BatchIdle ==
    /\ dir_files = 0
    /\ thread_limit = MaxThreads
    /\ item_path = <<>>
    /\ item_path_list = <<>>
    /\ spawned = 0
    /\ wpc = <<>>
    /\ widx = <<>>
    /\ wsuccess = <<>>
    /\ wfail = <<>>
    /\ outcome = <<>>
    /\ invocations = <<>>
    /\ invokers = <<>>
    /\ mainPc = "idle"
    /\ joinIdx = 1
    /\ success = 0
    /\ fail = 0
    /\ summary = None

WalkIdle ==
    /\ fs_kind = <<>>
    /\ fs_parent = <<>>
    /\ walk_pc = "idle"
    /\ walk_result = <<>>

DeriveIdle ==
    /\ d_mode = "idle"
    /\ d_object_name = <<>>
    /\ d_file_path = <<>>
    /\ d_keys = <<>>

FileIdle ==
    /\ f_object_name = <<>>
    /\ f_file_path = <<>>
    /\ f_domain_name = <<>>
    /\ f_no_qrcode = FALSE
    /\ f_pc = "idle"
    /\ f_key = <<>>
    /\ f_upload = "none"
    /\ f_printed = <<>>
    /\ f_link = <<>>

Init == BatchInit /\ SplitIdle /\ KeyIdle /\ WalkIdle /\ DeriveIdle /\ FileIdle

Next ==
    \/ (MainEmptyDir /\ UNCHANGED not_batch_vars)
    \/ (MainSplit /\ UNCHANGED not_batch_vars)
    \/ (MainSpawn /\ UNCHANGED not_batch_vars)
    \/ (\E w \in Handles : OpenOk(w) /\ UNCHANGED not_batch_vars)
    \/ (\E w \in Handles : OpenFail(w) /\ UNCHANGED not_batch_vars)
    \/ (\E w \in Handles : MetadataOk(w) /\ UNCHANGED not_batch_vars)
    \/ (\E w \in Handles : MetadataFail(w) /\ UNCHANGED not_batch_vars)
    \/ (\E w \in Handles : UploadOk(w) /\ UNCHANGED not_batch_vars)
    \/ (\E w \in Handles : UploadErr(w) /\ UNCHANGED not_batch_vars)
    \/ (MainJoin /\ UNCHANGED not_batch_vars)
    \/ (MainJoinPanic /\ UNCHANGED not_batch_vars)
    \/ (RuntimeShutdown /\ UNCHANGED not_batch_vars)

Spec == Init /\ [][Next]_vars

\* ------------------------------------------------------------------------
\* split_into_chunks applied to lists of 0..MaxK items (and of 65) with
\* chunk counts 1..MaxM (and 30)
\* ------------------------------------------------------------------------
SplitInit ==
    /\ \E k \in (0..MaxK) \cup {65} : list = [i \in 1..k |-> i]
    /\ chunk_count \in (1..MaxM) \cup {MaxThreads}
    /\ split_pc = "call"
    /\ split_result = <<>>
    /\ BatchIdle
    /\ KeyIdle
    /\ WalkIdle
    /\ DeriveIdle
    /\ FileIdle

\* main.rs:25-28: chunk_size >= 1, the chunks are returned
SplitReturn ==
    /\ split_pc = "call"
    /\ chunk_size(Len(list), chunk_count) > 0
    /\ split_result' = split_into_chunks(list, chunk_count)
    /\ split_pc' = "done"
    /\ UNCHANGED <<list, chunk_count>>

\* main.rs:26: chunk_size = 0 (an empty list): slice::chunks(0) panics
SplitPanic ==
    /\ split_pc = "call"
    /\ chunk_size(Len(list), chunk_count) = 0
    /\ split_pc' = "panicked"
    /\ UNCHANGED <<list, chunk_count, split_result>>

SplitNext ==
    \/ (SplitReturn /\ UNCHANGED not_split_vars)
    \/ (SplitPanic /\ UNCHANGED not_split_vars)

SplitSpec == SplitInit /\ [][SplitNext]_vars

\* ------------------------------------------------------------------------
\* The key post-processing applied, once and again, to the strings of at
\* most MaxLen characters over CharSet
\* ------------------------------------------------------------------------
KeyInit ==
    /\ key_input \in Strings
    /\ key_output = <<>>
    /\ BatchIdle
    /\ SplitIdle
    /\ WalkIdle
    /\ DeriveIdle
    /\ FileIdle

\* main.rs:213 / 215-217: the post-processing applied to the string itself
PostProcessFirst ==
    /\ key_output = <<>>
    /\ key_output' = <<post_process(key_input)>>
    /\ UNCHANGED key_input

\* the post-processing applied to its own result
PostProcessAgain ==
    /\ Len(key_output) = 1
    /\ key_output' = Append(key_output, post_process(key_output[1]))
    /\ UNCHANGED key_input

KeyNext ==
    \/ (PostProcessFirst /\ UNCHANGED not_key_vars)
    \/ (PostProcessAgain /\ UNCHANGED not_key_vars)

KeySpec == KeyInit /\ [][KeyNext]_vars

\* ------------------------------------------------------------------------
\* walk_dir applied to the trees of at most MaxNodes entries.  Entry 1 is the
\* path P given to walk_dir; the entries of a directory are read in the order
\* of their numbers.  "other" is an entry that is neither a directory nor a
\* regular file (a special file, a dangling link); "locked_dir" is a directory
\* whose read_dir fails.
\* ------------------------------------------------------------------------
Kinds == {"dir", "file", "other", "locked_dir"}

\* Path::is_dir
is_dir(k) == k \in {"dir", "locked_dir"}

\* Path::is_file
is_file(k) == k = "file"

\* the entries of directory d, in read_dir order
Entries(kind, parent, d) ==
    LET S == {e \in DOMAIN parent : parent[e] = d}
        RECURSIVE Sorted(_, _)
        Sorted(T, e) ==
            IF e > Len(parent) THEN <<>>
            ELSE (IF e \in T THEN <<e>> ELSE <<>>) \o Sorted(T, e + 1)
    IN  Sorted(S, 1)

\* main.rs:46-61
RECURSIVE walk_dir(_, _, _)
walk_dir(kind, parent, dir) ==
    LET RECURSIVE each(_)
        each(items) ==
            IF items = <<>> THEN <<>>
            ELSE (IF is_file(kind[Head(items)])
                  THEN <<Head(items)>>
                  ELSE walk_dir(kind, parent, Head(items)))
                 \o each(Tail(items))
    IN  IF is_dir(kind[dir])
        THEN each(Entries(kind, parent, dir))
        ELSE <<dir>>

WalkInit ==
    /\ \E n \in 1..MaxNodes :
          /\ fs_kind \in [1..n -> Kinds]
          /\ fs_parent \in [1..n -> 0..(n - 1)]
          /\ \A e \in 1..n :
                IF e = 1 THEN fs_parent[e] = 0
                ELSE /\ fs_parent[e] \in 1..(e - 1)
                     /\ fs_kind[fs_parent[e]] = "dir"
    /\ walk_pc = "call"
    /\ walk_result = <<>>
    /\ BatchIdle
    /\ SplitIdle
    /\ KeyIdle
    /\ DeriveIdle
    /\ FileIdle

\* main.rs:46-61: every read_dir succeeded, res is returned
WalkReturn ==
    /\ walk_pc = "call"
    /\ \A e \in DOMAIN fs_kind : fs_kind[e] # "locked_dir"
    /\ walk_result' = walk_dir(fs_kind, fs_parent, 1)
    /\ walk_pc' = "done"
    /\ UNCHANGED <<fs_kind, fs_parent>>

\* main.rs:49: dir.read_dir().unwrap() on a directory that cannot be read
WalkPanic ==
    /\ walk_pc = "call"
    /\ \E e \in DOMAIN fs_kind : fs_kind[e] = "locked_dir"
    /\ walk_pc' = "panicked"
    /\ UNCHANGED <<fs_kind, fs_parent, walk_result>>

WalkNext ==
    \/ (WalkReturn /\ UNCHANGED not_walk_vars)
    \/ (WalkPanic /\ UNCHANGED not_walk_vars)

WalkSpec == WalkInit /\ [][WalkNext]_vars

\* ------------------------------------------------------------------------
\* The key derivation of both modes applied to bounded inputs: object names
\* of at most MaxPrefixLen characters (or none), a file_path made of one name
\* with up to MaxSlashes separators before and after it, and, in directory
\* mode, the files a, A and Aa/a under it.
\* ------------------------------------------------------------------------
OptNone == <<"None">>
Some(v) == <<"Some", v>>

Slash == <<"/">>

\* str::starts_with / str::ends_with
starts_with(s, p) == Len(p) <= Len(s) /\ SubSeq(s, 1, Len(p)) = p
ends_with(s, p) == Len(p) <= Len(s) /\ SubSeq(s, Len(s) - Len(p) + 1, Len(s)) = p

\* s.strip_prefix(p).unwrap_or(s) / s.strip_suffix(p).unwrap_or(s)
strip_prefix_or(s, p) == IF starts_with(s, p) THEN SubSeq(s, Len(p) + 1, Len(s)) ELSE s
strip_suffix_or(s, p) == IF ends_with(s, p) THEN SubSeq(s, 1, Len(s) - Len(p)) ELSE s

\* the path of a directory entry: the directory's path joined with the name,
\* a separator being added unless the path already ends with one
join(path, name) ==
    IF path # <<>> /\ path[Len(path)] # "/" THEN path \o Slash \o name ELSE path \o name

\* the path walk_dir reports for the file at `rel` (a sequence of names) under root
RECURSIVE item_path_of(_, _)
item_path_of(root, rel) ==
    IF rel = <<>> THEN root ELSE item_path_of(join(root, Head(rel)), Tail(rel))

RECURSIVE trim_end_slashes(_)
trim_end_slashes(s) ==
    IF s # <<>> /\ s[Len(s)] = "/" THEN trim_end_slashes(SubSeq(s, 1, Len(s) - 1)) ELSE s

\* Path::file_name: the last component of the path
file_name(path) ==
    LET t == trim_end_slashes(path)
        cuts == {i \in 1..Len(t) : t[i] = "/"}
        last == IF cuts = {} THEN 0 ELSE CHOOSE i \in cuts : \A j \in cuts : j <= i
    IN  SubSeq(t, last + 1, Len(t))

\* Path::file_stem: the file name up to its last dot (the whole name when it
\* has no dot, or only a leading one)
file_stem(path) ==
    LET n == file_name(path)
        dots == {i \in 1..Len(n) : n[i] = "."}
        last == IF dots = {} THEN 0 ELSE CHOOSE i \in dots : \A j \in dots : j <= i
    IN  IF last <= 1 THEN n ELSE SubSeq(n, 1, last - 1)

Uploads == <<"u", "p", "l", "o", "a", "d", "s", "/">>

\* main.rs:205-218: the key of `item` in directory mode
dir_object_name_keep_case(key_name, file_name_str, dir_name, item_str) ==
    IF key_name # OptNone
    THEN LET dest0 == strip_prefix_or(key_name[2], Slash)
             dest_dir == strip_suffix_or(dest0, Slash)
         IN  replace_slashes(dest_dir \o Slash \o dir_name \o Slash
                             \o strip_prefix_or(item_str, file_name_str))
    ELSE replace_slashes(Uploads \o item_str)
dir_object_name_flat(key_name, file_name_str, dir_name, item_str) ==
    IF key_name # OptNone
    THEN LET dest0 == strip_prefix_or(key_name[2], Slash)
             dest_dir == strip_suffix_or(dest0, Slash)
         IN  post_process(dest_dir \o Slash \o dir_name \o Slash \o file_name(item_str))
    ELSE post_process(Uploads \o file_name(item_str))
dir_object_name(key_name, file_name_str, dir_name, item_str) ==
    IF key_name # OptNone
    THEN LET dest0 == strip_prefix_or(key_name[2], Slash)
             dest_dir == strip_suffix_or(dest0, Slash)
         IN  post_process(dest_dir \o Slash \o dir_name \o Slash
                          \o strip_prefix_or(item_str, file_name_str))
    ELSE post_process(Uploads \o item_str)

\* main.rs:304-312: the key in single-file mode
file_object_name(object_name, file_path) ==
    IF object_name # OptNone THEN object_name[2] ELSE Uploads \o file_name(file_path)

RECURSIVE Slashes(_)
Slashes(n) == IF n = 0 THEN <<>> ELSE Slash \o Slashes(n - 1)

RootNames == {<<"a">>, <<"A">>, <<"A", ".", "a">>, <<"a", "A">>}

ObjectNames ==
    {OptNone} \cup {Some(s) : s \in UNION {StringsOfLen(n) : n \in 0..MaxPrefixLen}}

\* the files found under the directory, as sequences of names
RelPaths == << << <<"a">> >>, << <<"A">> >>, << <<"A", "a">>, <<"a">> >> >>

DeriveInit ==
    /\ d_mode \in {"dir", "file"}
    /\ d_object_name \in ObjectNames
    /\ \E lead \in 0..MaxSlashes, trail \in 0..MaxSlashes, n \in RootNames :
          /\ d_mode = "file" => trail = 0
          /\ d_file_path = Slashes(lead) \o n \o Slashes(trail)
    /\ d_keys = <<>>
    /\ BatchIdle
    /\ SplitIdle
    /\ KeyIdle
    /\ WalkIdle
    /\ FileIdle

\* main.rs:183-218: the key of the i-th file of the directory
DeriveDirKey(i) ==
    /\ d_mode = "dir"
    /\ i \notin DOMAIN d_keys
    /\ d_keys' = [j \in DOMAIN d_keys \cup {i} |->
                    IF j = i
                    THEN dir_object_name(d_object_name, d_file_path, file_stem(d_file_path),
                                         item_path_of(d_file_path, RelPaths[i]))
                    ELSE d_keys[j]]
    /\ UNCHANGED <<d_mode, d_object_name, d_file_path>>

\* main.rs:304-318: the key of the single file
DeriveFileKey ==
    /\ d_mode = "file"
    /\ d_keys = <<>>
    /\ d_keys' = <<file_object_name(d_object_name, d_file_path)>>
    /\ UNCHANGED <<d_mode, d_object_name, d_file_path>>

DeriveNext ==
    \/ (\E i \in 1..Len(RelPaths) : DeriveDirKey(i) /\ UNCHANGED not_derive_vars)
    \/ (DeriveFileKey /\ UNCHANGED not_derive_vars)

DeriveSpec == DeriveInit /\ [][DeriveNext]_vars

\* ------------------------------------------------------------------------
\* The single-file branch of main (main.rs:297-359)
\* ------------------------------------------------------------------------
Http == <<"h", "t", "t", "p">>

Https == <<"h", "t", "t", "p", "s", ":", "/", "/">>

\* main.rs:32-43
get_download_url(domain_name, object_name) ==
    IF domain_name = OptNone THEN <<>>
    ELSE IF starts_with(domain_name[2], Http)
         THEN domain_name[2] \o Slash \o object_name
         ELSE Https \o domain_name[2] \o Slash \o object_name

DomainNames ==
    {OptNone, Some(<<"d">>), Some(<<"h", "t", "t", "p", ":", "/", "/", "d">>)}

FileInit ==
    /\ f_object_name \in
          {OptNone} \cup {Some(s) : s \in UNION {StringsOfLen(n) : n \in 0..MaxNameLen}}
    /\ f_file_path \in {<<"a">>, <<"/", "A">>}
    /\ f_domain_name \in DomainNames
    /\ f_no_qrcode \in BOOLEAN
    /\ f_pc = "start"
    /\ f_key = <<>>
    /\ f_upload = "none"
    /\ f_printed = <<>>
    /\ f_link = <<>>
    /\ BatchIdle
    /\ SplitIdle
    /\ KeyIdle
    /\ WalkIdle
    /\ DeriveIdle

\* main.rs:297-303: File::open failed: "read ... failed !", exit(1)
FileOpenFail ==
    /\ f_pc = "start"
    /\ f_pc' = "exit1"
    /\ f_printed' = Append(f_printed, "read_failed")
    /\ UNCHANGED <<f_object_name, f_file_path, f_domain_name, f_no_qrcode, f_key,
                   f_upload, f_link>>

\* main.rs:297-314: File::open succeeded, object_name is chosen, metadata awaited
FileOpenOk ==
    /\ f_pc = "start"
    /\ f_pc' = "metadata"
    /\ f_key' = file_object_name(f_object_name, f_file_path)
    /\ UNCHANGED <<f_object_name, f_file_path, f_domain_name, f_no_qrcode,
                   f_upload, f_printed, f_link>>

\* main.rs:314: file.metadata().await.unwrap() on an Err
FileMetadataFail ==
    /\ f_pc = "metadata"
    /\ f_pc' = "panicked"
    /\ UNCHANGED <<f_object_name, f_file_path, f_domain_name, f_no_qrcode, f_key,
                   f_upload, f_printed, f_link>>

\* main.rs:314-323: the size is read and upload_to_qiniu is awaited
FileUploadStart ==
    /\ f_pc = "metadata"
    /\ f_pc' = "upload"
    /\ f_upload' = "inflight"
    /\ UNCHANGED <<f_object_name, f_file_path, f_domain_name, f_no_qrcode, f_key,
                   f_printed, f_link>>

\* main.rs:341-358: the link, the QR code and the elapsed time, as printed after
\* the match on the upload's result
after_upload(first_line) ==
    LET download_url == get_download_url(f_domain_name, f_key)
    IN  /\ f_link' = download_url
        /\ f_printed' =
              <<first_line>>
              \o (IF download_url # <<>> THEN <<"link">> ELSE <<>>)
              \o (IF download_url # <<>> /\ ~f_no_qrcode THEN <<"qrcode">> ELSE <<>>)
              \o <<"elapsed">>
        /\ f_pc' = "done"

\* main.rs:325-331, 341-359: Ok(()): "上传成功", then the link
FileUploadOk ==
    /\ f_pc = "upload"
    /\ f_upload' = "ok"
    /\ after_upload("success")
    /\ UNCHANGED <<f_object_name, f_file_path, f_domain_name, f_no_qrcode, f_key>>

\* main.rs:332-339, 341-359: Err(e): "上传失败", then the link all the same
FileUploadErr ==
    /\ f_pc = "upload"
    /\ f_upload' = "err"
    /\ after_upload("failure")
    /\ UNCHANGED <<f_object_name, f_file_path, f_domain_name, f_no_qrcode, f_key>>

FileNext ==
    \/ (FileOpenFail /\ UNCHANGED not_file_vars)
    \/ (FileOpenOk /\ UNCHANGED not_file_vars)
    \/ (FileMetadataFail /\ UNCHANGED not_file_vars)
    \/ (FileUploadStart /\ UNCHANGED not_file_vars)
    \/ (FileUploadOk /\ UNCHANGED not_file_vars)
    \/ (FileUploadErr /\ UNCHANGED not_file_vars)

FileSpec == FileInit /\ [][FileNext]_vars

\* ------------------------------------------------------------------------
\* Properties of split_into_chunks (checked under SplitSpec)
\* ------------------------------------------------------------------------
\* positions <<chunk, index>> of the result that hold the item x
PositionsOf(x) ==
    {p \in UNION {{<<c, j>> : j \in 1..Len(split_result[c])} : c \in 1..Len(split_result)} :
        split_result[p[1]][p[2]] = x}

\* C4: for a non-empty list and chunk_count >= 1, the chunks concatenated in
\* order are the input list, and every item is in exactly one place of exactly
\* one chunk.
C4_ConcatIsList ==
    split_pc = "done" =>
        /\ Concat(split_result) = list
        /\ \A i \in 1..Len(list) : Cardinality(PositionsOf(list[i])) = 1

\* a ragged split: 7 items, chunk_count 3, chunks of 3, 3 and 1
C4_Witness ==
    /\ split_pc = "done"
    /\ Len(list) = 7
    /\ chunk_count = 3
    /\ Len(split_result) = 3

\* C5: for K >= 1 and M >= 1 there are between 1 and min(K, M) chunks, none
\* empty, all but the last of exactly ceil(K/M) items and the last of at most
\* ceil(K/M); when K <= M there are K chunks of one item.
C5_ChunkShape ==
    split_pc = "done" =>
        LET K == Len(list)
            M == chunk_count
            n == Len(split_result)
        IN  /\ n >= 1
            /\ n <= Min(K, M)
            /\ \A c \in 1..n : Len(split_result[c]) >= 1
            /\ \A c \in 1..(n - 1) : Len(split_result[c]) = CeilDiv(K, M)
            /\ Len(split_result[n]) <= CeilDiv(K, M)
            /\ K <= M => (n = K /\ \A c \in 1..n : Len(split_result[c]) = 1)

\* K <= M with several items: 3 items, chunk_count 8
C5_Witness ==
    /\ split_pc = "done"
    /\ Len(list) = 3
    /\ chunk_count = 8
    /\ Len(split_result) = 3

\* C6 as stated: 65 files with at most 30 workers give exactly 30 chunks.
C6_ThirtyChunks ==
    (split_pc = "done" /\ Len(list) = 65 /\ chunk_count = MaxThreads) =>
        Len(split_result) = 30

\* C6 amended: 65 files with at most 30 workers give exactly 22 chunks, the
\* first 21 of 3 files and the last of 2.
C6_TwentyTwoChunks ==
    (split_pc = "done" /\ Len(list) = 65 /\ chunk_count = MaxThreads) =>
        /\ Len(split_result) = 22
        /\ \A c \in 1..21 : Len(split_result[c]) = 3
        /\ Len(split_result[22]) = 2

C6_Witness ==
    /\ split_pc = "done"
    /\ Len(list) = 65
    /\ chunk_count = MaxThreads
    /\ split_result # <<>>

\* ------------------------------------------------------------------------
\* Properties of the key post-processing (checked under KeySpec)
\* ------------------------------------------------------------------------
\* C10: the post-processing applied twice gives what it gives applied once.
C10_Idempotent ==
    Len(key_output) = 2 => key_output[2] = key_output[1]

\* ------------------------------------------------------------------------
\* Properties of the directory batch (checked under Spec)
\* ------------------------------------------------------------------------
Chunks == 1..Len(item_path_list)

Produced == {"ok", "err"}

RECURSIVE SumTo(_, _)
SumTo(f, n) == IF n = 0 THEN 0 ELSE f[n] + SumTo(f, n - 1)

\* a step in which the upload awaited by the task of chunk w returns an error
UploadFails(w) == wpc[w] = "upload" /\ outcome'[item(w)] = "err"

\* C1: when the upload of a task returns an error its worker adds one to its
\* failure counter only, does not stop, and goes on to the next task of its
\* chunk (or returns its pair after the last one); the other workers are left
\* as they are.  Tasks are attempted in chunk order, a worker that has returned
\* has attempted every task of its chunk, and when the summary is printed every
\* file of every chunk has been attempted.
C1_ErrorStep ==
    \A w \in Handles :
        UploadFails(w) =>
            /\ wfail'[w] = wfail[w] + 1
            /\ wsuccess'[w] = wsuccess[w]
            /\ wpc'[w] = IF widx[w] < Len(item_path_list[w]) THEN "open" ELSE "returned"
            /\ widx'[w] = IF widx[w] < Len(item_path_list[w]) THEN widx[w] + 1 ELSE widx[w]
            /\ \A v \in Handles \ {w} :
                  /\ wpc'[v] = wpc[v]
                  /\ widx'[v] = widx[v]
                  /\ wsuccess'[v] = wsuccess[v]
                  /\ wfail'[v] = wfail[v]

C1_AllAttempted ==
    /\ \A w \in Handles :
          /\ wpc[w] = "returned" =>
                \A j \in 1..Len(item_path_list[w]) : outcome[item_path_list[w][j]] \in Produced
          /\ \A j \in 1..Len(item_path_list[w]) :
                (outcome[item_path_list[w][j]] = "err" /\ j < Len(item_path_list[w]))
                    => widx[w] > j
    /\ summary # None => \A f \in Files : outcome[f] \in Produced

C1_FailureIsolation == [][C1_ErrorStep]_vars /\ []C1_AllAttempted

\* the first upload of a two-file chunk failed, the second succeeded, and the
\* batch printed its summary
C1_Witness ==
    /\ summary # None
    /\ \E w \in Chunks :
          /\ Len(item_path_list[w]) >= 2
          /\ outcome[item_path_list[w][1]] = "err"
          /\ outcome[item_path_list[w][2]] = "ok"
    /\ Len(item_path_list) >= 2

\* files whose open or metadata read failed
OpenFailed == {f \in Files : outcome[f] \in {"open_failed", "metadata_failed"}}

\* C2: when opening exactly one of the n files (or reading its metadata) fails
\* and no upload fails, the batch ends with every other file uploaded and the
\* summary n-1 successes, 1 failure.
C2_OpenFailureCounted ==
    (/\ mainPc \in {"done", "panicked"}
     /\ dir_files >= 3
     /\ Cardinality(OpenFailed) = 1
     /\ \A f \in Files : outcome[f] # "err")
        => /\ summary = <<dir_files - 1, 1>>
           /\ \A f \in Files \ OpenFailed : outcome[f] = "ok"

\* C3: the printed tally adds up to the number of files walk_dir found.
C3_TallyIsFileCount ==
    summary # None => summary[1] + summary[2] = Len(item_path)

\* a summary with successes and failures, from several workers
C3_Witness ==
    /\ summary # None
    /\ summary[1] >= 1
    /\ summary[2] >= 2
    /\ Len(item_path_list) >= 2

\* the chunk that holds file f
Owner(f) == CHOOSE w \in Chunks : \E j \in 1..Len(item_path_list[w]) : item_path_list[w][j] = f

\* C7: part_upload_file is called at most once for each file, and only by the
\* task of the chunk that holds it.
C7_AtMostOnce ==
    \A f \in Files :
        /\ invocations[f] <= 1
        /\ Cardinality(invokers[f]) <= 1
        /\ invokers[f] # {} => invokers[f] = {Owner(f)}
        /\ outcome[f] \in Produced => invocations[f] = 1

\* every file was uploaded once, by two different tasks, and one upload failed
C7_Witness ==
    /\ dir_files >= 3
    /\ \A f \in Files : invocations[f] = 1 /\ outcome[f] \in Produced
    /\ \E f, g \in Files : invokers[f] # invokers[g]
    /\ \E f \in Files : outcome[f] = "err"
    /\ \E w \in Chunks : wpc[w] = "returned" /\ Len(item_path_list[w]) >= 2

\* C8: the summary is printed only when every spawned task is at its end and no
\* file is waiting or in flight, and it is the sum of the tasks' pairs.
C8_SummaryAfterAll ==
    summary # None =>
        /\ spawned = Len(item_path_list)
        /\ \A w \in Chunks : wpc[w] \in Terminal
        /\ \A f \in Files : outcome[f] \notin {"none", "opened", "inflight"}
        /\ summary = <<SumTo(wsuccess, Len(wsuccess)), SumTo(wfail, Len(wfail))>>

\* a summary for two tasks that each had two files
C8_Witness ==
    /\ summary # None
    /\ Len(item_path_list) = 2
    /\ \A w \in Chunks : Len(item_path_list[w]) = 2
    /\ summary = <<2, 2>>

\* files of chunk w whose upload has been called and has not returned
InFlight(w) ==
    {j \in 1..Len(item_path_list[w]) : outcome[item_path_list[w][j]] = "inflight"}

\* C9: at most one file of a chunk is in flight, and a file of a chunk is
\* started only when the outcome of the file before it has been produced.
C9_SequentialInChunk ==
    \A w \in Chunks :
        /\ Cardinality(InFlight(w)) <= 1
        /\ \A j \in 2..Len(item_path_list[w]) :
              outcome[item_path_list[w][j]] # "none"
                  => outcome[item_path_list[w][j - 1]] \in Produced

\* two chunks in flight at once, one on its second file and one on its first
C9_Witness ==
    \E v, w \in Chunks :
        /\ v # w
        /\ InFlight(v) = {2}
        /\ InFlight(w) = {1}

\* C14: when walk_dir finds no file main exits before anything is dispatched:
\* no chunk list, no spawned task, no summary; and whenever main has gone past
\* the check the list given to split_into_chunks was not empty.
C14_EmptyDirStops ==
    /\ (dir_files = 0 /\ mainPc # "start") =>
          /\ mainPc = "exit1"
          /\ item_path_list = <<>>
          /\ spawned = 0
          /\ wpc = <<>>
          /\ summary = None
    /\ mainPc \in {"spawn", "join", "done", "panicked"} => Len(item_path) >= 1

\* main has left through exit(1)
C14_Witness ==
    /\ mainPc = "exit1"
    /\ dir_files = 0
    /\ spawned = 0

\* C16: once the tasks are dispatched a batch that can do nothing more has
\* printed its summary.
C16_BatchCompletes ==
    (mainPc \in {"join", "done", "panicked"} /\ ~ENABLED Next) => summary # None

\* files whose upload has been called and has not returned
InFlightFiles == {f \in Files : outcome[f] = "inflight"}

\* C17: the uploads in flight are never more than the chunks, and the chunks
\* are never more than the thread limit (at most 30) nor than the files.
C17_BoundedConcurrency ==
    /\ Cardinality(InFlightFiles) <= Len(item_path_list)
    /\ Len(item_path_list) <= thread_limit
    /\ thread_limit <= MaxThreads
    /\ Len(item_path_list) <= Len(item_path)

\* every chunk has an upload in flight, and there are more files than chunks
C17_Witness ==
    /\ Len(item_path_list) = 2
    /\ Cardinality(InFlightFiles) = 2
    /\ dir_files = 5

\* ------------------------------------------------------------------------
\* Properties of walk_dir (checked under WalkSpec)
\* ------------------------------------------------------------------------
RegularFiles == {e \in DOMAIN fs_kind : fs_kind[e] = "file"}

\* C15: for a directory P, walk_dir(P) returns the regular files of the tree,
\* each once, and nothing else.
C15_ExactlyRegularFiles ==
    (walk_pc = "done" /\ fs_kind[1] = "dir") =>
        /\ {walk_result[i] : i \in 1..Len(walk_result)} = RegularFiles
        /\ Len(walk_result) = Cardinality(RegularFiles)

\* ------------------------------------------------------------------------
\* Properties of the key derivation (checked under DeriveSpec)
\* ------------------------------------------------------------------------
NoDoubleSlash(s) == \A i \in 1..(Len(s) - 1) : ~(s[i] = "/" /\ s[i + 1] = "/")

NoUpperCase(s) == \A i \in 1..Len(s) : s[i] # "A"

\* every run of separators made a single separator
RECURSIVE Collapse(_)
Collapse(s) ==
    IF Len(s) < 2 THEN s
    ELSE IF s[1] = "/" /\ s[2] = "/" THEN Collapse(Tail(s))
         ELSE <<s[1]>> \o Collapse(Tail(s))

RECURSIVE TrimStartSlashes(_)
TrimStartSlashes(s) ==
    IF s # <<>> /\ s[1] = "/" THEN TrimStartSlashes(Tail(s)) ELSE s

\* the names of a relative path written with separators between them
RECURSIVE RelString(_)
RelString(rel) ==
    IF Len(rel) = 1 THEN rel[1] ELSE rel[1] \o Slash \o RelString(Tail(rel))

\* C11: in directory mode no key handed to the upload client has a doubled
\* separator or an upper-case character.
C11_KeyNormalised ==
    d_mode = "dir" =>
        \A i \in DOMAIN d_keys : NoDoubleSlash(d_keys[i]) /\ NoUpperCase(d_keys[i])

\* C12: with a destination prefix p the key of the file at r under R is the
\* lower-cased, single-separator form of p'/name(R)/r, p' being p without its
\* leading and trailing separators and name(R) the last component of R.
\* (Stated for prefixes and roots that hold no doubled separator.)
C12_PrefixedKey ==
    (/\ d_mode = "dir"
     /\ d_object_name # OptNone
     /\ NoDoubleSlash(d_file_path)
     /\ NoDoubleSlash(d_object_name[2]))
        => \A i \in DOMAIN d_keys :
              d_keys[i] = to_lowercase(Collapse(
                  TrimStartSlashes(trim_end_slashes(d_object_name[2]))
                  \o Slash \o file_name(d_file_path) \o Slash \o RelString(RelPaths[i])))

LowerItem(i) == to_lowercase(item_path_of(d_file_path, RelPaths[i]))

\* C18 as stated: distinct files of the batch have distinct keys.
C18_DistinctKeys ==
    d_mode = "dir" =>
        \A i, j \in DOMAIN d_keys : i # j => d_keys[i] # d_keys[j]

\* C18 amended: files whose paths differ by more than letter case have
\* distinct keys; files whose paths differ in letter case only share a key.
C18_DistinctUpToCase ==
    d_mode = "dir" =>
        \A i, j \in DOMAIN d_keys :
            (d_keys[i] = d_keys[j]) <=> (LowerItem(i) = LowerItem(j))

\* the three files derived under a prefix: a and A share a key, Aa/a has its own
C18_Witness ==
    /\ d_mode = "dir"
    /\ d_object_name # OptNone
    /\ DOMAIN d_keys = {1, 2, 3}
    /\ d_keys[1] = d_keys[2]
    /\ d_keys[3] # d_keys[1]

\* ------------------------------------------------------------------------
\* Properties of the single-file branch (checked under FileSpec)
\* ------------------------------------------------------------------------
\* C19: with a download domain configured, a download link is printed only
\* for an object whose upload has succeeded.
C19_LinkOnlyAfterSuccess ==
    (f_domain_name # OptNone /\ \E i \in 1..Len(f_printed) : f_printed[i] = "link")
        => f_upload = "ok"

====
